---- MODULE Spec2Model ----
(***************************************************************************)
(* Model of the qurious chat client (components/chat-interface.tsx):       *)
(* the ChatInterface component's React state, the localStorage entry       *)
(* "queryHistory", the chat and health requests in flight and the event    *)
(* handlers of the component.                                              *)
(*                                                                         *)
(* React semantics the model relies on: an event handler sees the state of *)
(* the latest render (updates made in a discrete event are flushed before  *)
(* the next event is dispatched); the part of an async handler after an    *)
(* await keeps the values of the render in which the handler was called    *)
(* (a closure), except for functional updates setX(prev => ...); an error  *)
(* thrown in an effect or during rendering, with no error boundary in the  *)
(* tree, unmounts the component.                                           *)
(***************************************************************************)
EXTENDS Integers, Sequences, FiniteSets, TLC

VARIABLES phase, envUrl, backendUrl, messages, input, isLoading, showHistory,
          queryHistory, storage, now, requests, pending,
          healthRequests, healthPending, toast

vars == <<phase, envUrl, backendUrl, messages, input, isLoading, showHistory,
          queryHistory, storage, now, requests, pending,
          healthRequests, healthPending, toast>>

-----------------------------------------------------------------------------
(* Bounds of the model.                                                    *)

\* chat requests issued in one behaviour of Spec
MaxRequests == 2
\* largest reading of the millisecond clock
MaxClock == 2
\* health requests issued in one behaviour
MaxHealth == 1
\* chat requests issued in one behaviour of SpecCap, beyond the capacity
CapExtra == 2
\* failed chat requests in one behaviour of SpecCap
MaxCapFailures == 1

\* .slice(0, 50) in saveToHistory
HistoryCap == 50

-----------------------------------------------------------------------------
(* Strings.                                                                *)

Min(a, b) == IF a < b THEN a ELSE b

\* the value of a missing property / of an unset environment variable
UNDEF == "<undefined>"
\* an Invalid Date (its time value is NaN)
NaN == -1

CharAt(s, i) == SubSeq(s, i, i)

IsSpace(c) == c \in {" ", "\t", "\n"}

RECURSIVE TrimStart(_)
TrimStart(s) ==
  IF Len(s) > 0 /\ IsSpace(CharAt(s, 1)) THEN TrimStart(SubSeq(s, 2, Len(s))) ELSE s

RECURSIVE TrimEnd(_)
TrimEnd(s) ==
  IF Len(s) > 0 /\ IsSpace(CharAt(s, Len(s))) THEN TrimEnd(SubSeq(s, 1, Len(s) - 1)) ELSE s

\* String.prototype.trim
Trim(s) == TrimEnd(TrimStart(s))

\* String.prototype.includes
Includes(s, sub) ==
  \E i \in 1..(Len(s) - Len(sub) + 1) : SubSeq(s, i, i + Len(sub) - 1) = sub

Digits == <<"0", "1", "2", "3", "4", "5", "6", "7", "8", "9">>

IsDigit(c) == \E d \in 1..10 : Digits[d] = c

DigitValue(c) == (CHOOSE d \in 1..10 : Digits[d] = c) - 1

\* Number.prototype.toString, for the non-negative integers of Date.now()
RECURSIVE NumberToString(_)
NumberToString(n) ==
  IF n < 10 THEN Digits[n + 1] ELSE NumberToString(n \div 10) \o Digits[(n % 10) + 1]

\* the number a string of decimal digits denotes
RECURSIVE ParseDigits(_)
ParseDigits(s) ==
  IF Len(s) = 0 THEN 0
  ELSE 10 * ParseDigits(SubSeq(s, 1, Len(s) - 1)) + DigitValue(CharAt(s, Len(s)))

AllDigits(s) == Len(s) > 0 /\ \A i \in 1..Len(s) : IsDigit(CharAt(s, i))

\* Date.prototype.toISOString: the instant in text form, to the millisecond
\* (the calendar fields are not modelled: the text is T<ms>Z)
ToISOString(ms) == "T" \o NumberToString(ms) \o "Z"

\* JSON.stringify of a Date (Date.prototype.toJSON): null for an Invalid Date
DateToJSON(ms) == IF ms = NaN THEN "null" ELSE ToISOString(ms)

\* new Date(x) for a value read from the parsed payload: a missing property
\* gives an Invalid Date, null gives the epoch, an ISO text its instant
NewDate(x) ==
  IF x = UNDEF THEN NaN
  ELSE IF x = "null" THEN 0
  ELSE IF Len(x) >= 3 /\ CharAt(x, 1) = "T" /\ CharAt(x, Len(x)) = "Z"
          /\ AllDigits(SubSeq(x, 2, Len(x) - 1))
       THEN ParseDigits(SubSeq(x, 2, Len(x) - 1))
  ELSE NaN

Take(s, n) == SubSeq(s, 1, Min(n, Len(s)))

RemoveAt(s, i) == SubSeq(s, 1, i - 1) \o SubSeq(s, i + 1, Len(s))

-----------------------------------------------------------------------------
(* localStorage["queryHistory"] and its JSON form.                         *)

\* getItem returns null: the key is not set
NoItem == [kind |-> "absent", items |-> <<>>]
\* the key holds the empty string
EmptyText == [kind |-> "empty", items |-> <<>>]
\* the key holds text that JSON.parse rejects
Garbage == [kind |-> "garbage", items |-> <<>>]
\* the key holds JSON that is not an array (an object, null, a number)
NonArray == [kind |-> "nonarray", items |-> <<>>]
\* the key holds a JSON array
JsonArray(items) == [kind |-> "array", items |-> items]

\* items of a stored array: an object, a number, null
JsonObject(id, query, response, timestamp) ==
  [k |-> "object", id |-> id, query |-> query, response |-> response, timestamp |-> timestamp]
JsonNumber == [k |-> "number", id |-> UNDEF, query |-> UNDEF, response |-> UNDEF, timestamp |-> UNDEF]
JsonNull == [k |-> "null", id |-> UNDEF, query |-> UNDEF, response |-> UNDEF, timestamp |-> UNDEF]

\* JSON.stringify(updatedHistory): properties that are undefined are left
\* out, a Date becomes its toJSON text
JSONStringify(history) ==
  JsonArray([i \in 1..Len(history) |->
    JsonObject(history[i].id, history[i].query, history[i].response,
               DateToJSON(history[i].timestamp))])

\* ({ ...item, timestamp: new Date(item.timestamp) }) for an item that is not
\* null: the spread of a number has no properties
ReviveItem(item) ==
  [id |-> item.id, query |-> item.query, response |-> item.response,
   timestamp |-> NewDate(item.timestamp)]

\* JSON.parse(savedHistory) throws a SyntaxError
ParseThrows(payload) == payload.kind = "garbage"

\* parsedHistory.map(...) throws a TypeError: item.timestamp of null
MapThrows(payload) ==
  payload.kind = "array" /\ \E i \in 1..Len(payload.items) : payload.items[i].k = "null"

\* the history load of the mount effect throws, and its catch runs
LoadThrows(payload) == ParseThrows(payload) \/ MapThrows(payload)

\* the value the history load passes to setQueryHistory; <<>> is also the
\* state that stays when setQueryHistory is not called
LoadedHistory(payload) ==
  IF payload.kind = "array" /\ ~MapThrows(payload)
  THEN [i \in 1..Len(payload.items) |-> ReviveItem(payload.items[i])]
  ELSE <<>>

\* the storage after the history load: the catch removes the item
StorageAfterLoad(payload) == IF LoadThrows(payload) THEN NoItem ELSE payload

-----------------------------------------------------------------------------
(* Initial state: the first render of ChatInterface, before its effects.   *)

\* NEXT_PUBLIC_API_URL: unset (the empty string stands for undefined, both
\* are falsy) or set
EnvUrls == {"", "http://api"}

\* an entry persisted by an earlier session
OldEntry == JsonObject("0", "hi", "Hi there!", ToISOString(0))

InitialPayloads ==
  {NoItem, EmptyText, Garbage, NonArray, JsonArray(<<OldEntry>>),
   JsonArray(<<JsonNumber>>), JsonArray(<<OldEntry, JsonNull>>)}

NoToast == [title |-> "", description |-> "", variant |-> ""]

InitWith(env, payload) ==
  /\ phase = "rendered"
  /\ envUrl = env
  /\ backendUrl = env
  /\ messages = <<>>
  /\ input = ""
  /\ isLoading = FALSE
  /\ showHistory = FALSE
  /\ queryHistory = <<>>
  /\ storage = payload
  /\ now = 1
  /\ requests = <<>>
  /\ pending = <<>>
  /\ healthRequests = <<>>
  /\ healthPending = <<>>
  /\ toast = NoToast

Init == \E env \in EnvUrls : \E payload \in InitialPayloads : InitWith(env, payload)

-----------------------------------------------------------------------------
(* The mount effect: history load, then the backend URL check.             *)

Mount ==
  /\ phase = "rendered"
  /\ storage' = StorageAfterLoad(storage)
  /\ IF envUrl = ""
     THEN \* throw new Error("Missing NEXT_PUBLIC_API_URL ..."): the effect
          \* throws, React unmounts the component and drops its state
          /\ phase' = "crashed"
          /\ UNCHANGED <<queryHistory, backendUrl>>
     ELSE /\ phase' = "mounted"
          /\ queryHistory' = LoadedHistory(storage)
          /\ backendUrl' = envUrl
  /\ UNCHANGED <<envUrl, messages, input, isLoading, showHistory,
                 now, requests, pending, healthRequests, healthPending, toast>>

-----------------------------------------------------------------------------
(* Messages, history entries, requests and responses.                      *)

Message(id, content, role, timestamp) ==
  [id |-> id, content |-> content, role |-> role, timestamp |-> timestamp]

QueryHistory(id, query, response, timestamp) ==
  [id |-> id, query |-> query, response |-> response, timestamp |-> timestamp]

\* the body of the POST to /api/chat
ChatBody(message, history) ==
  [message |-> message,
   history |-> [i \in 1..Len(history) |->
     [role |-> history[i].role, content |-> history[i].content,
      timestamp |-> ToISOString(history[i].timestamp)]]]

\* what the network gives back for a request: nothing yet, a rejected fetch,
\* or an HTTP response with a body that is unparsable, JSON null or an object
NoResponse ==
  [kind |-> "none", ok |-> FALSE, body |-> "", detail |-> UNDEF, response |-> UNDEF,
   model |-> UNDEF, tokens |-> 0, errMessage |-> ""]
Rejected(m) ==
  [kind |-> "reject", ok |-> FALSE, body |-> "", detail |-> UNDEF, response |-> UNDEF,
   model |-> UNDEF, tokens |-> 0, errMessage |-> m]
HttpResponse(ok, body, detail, response, model, tokens, m) ==
  [kind |-> "http", ok |-> ok, body |-> body, detail |-> detail, response |-> response,
   model |-> model, tokens |-> tokens, errMessage |-> m]

\* the message of the TypeError a browser's fetch rejects with
FetchFailures == {"Failed to fetch", "Load failed"}
\* the message of the SyntaxError of response.json() on an unparsable body
ParseFailures ==
  {"Unexpected token < in JSON at position 0",
   "Unexpected token 'f', \"fetching\" is not valid JSON"}
\* the detail field of an error body; UNDEF: the body has no detail
Details ==
  {UNDEF, "model overloaded", "Rate limit exceeded", "Invalid API key",
   "prefetch failed"}
ErrorResponses ==
  {HttpResponse(FALSE, "unparsable", UNDEF, UNDEF, UNDEF, 0, "")}
  \cup {HttpResponse(FALSE, "null", UNDEF, UNDEF, UNDEF, 0, "")}
  \cup {HttpResponse(FALSE, "object", d, UNDEF, UNDEF, 0, "") : d \in Details}

BrokenOkResponses ==
  {HttpResponse(TRUE, "unparsable", UNDEF, UNDEF, UNDEF, 0, m) : m \in ParseFailures}
  \cup {HttpResponse(TRUE, "null", UNDEF, UNDEF, UNDEF, 0, "")}

OkResponses ==
  {HttpResponse(TRUE, "object", UNDEF, UNDEF, UNDEF, 0, ""),
   HttpResponse(TRUE, "object", UNDEF, "Hi there!", "llama-3.1-8b-instant", 10, "")}

ChatResponses ==
  {Rejected(m) : m \in FetchFailures} \cup ErrorResponses \cup BrokenOkResponses
  \cup OkResponses

\* a thrown Error
Error(name, message) == [name |-> name, message |-> message]
NoError == Error("", "")

\* a || b for strings: a missing or empty a gives b
OrElse(a, b) == IF a = UNDEF \/ a = "" THEN b ELSE a

\* what the try block of handleSubmit throws for a response; NoError: the
\* block runs to its end
Thrown(r) ==
  IF r.kind = "reject" THEN Error("TypeError", r.errMessage)
  ELSE IF ~r.ok
    THEN IF r.body = "unparsable"
           \* response.json().catch(() => ({ detail: "Unknown error" }))
           THEN Error("Error", "Unknown error")
         ELSE IF r.body = "null"
           \* errorData is null: errorData.detail throws
           THEN Error("TypeError", "Cannot read properties of null (reading 'detail')")
         ELSE Error("Error", OrElse(r.detail, "Failed to get response from backend"))
  ELSE IF r.body = "unparsable" THEN Error("SyntaxError", r.errMessage)
  ELSE IF r.body = "null"
    THEN Error("TypeError", "Cannot read properties of null (reading 'response')")
  ELSE NoError

CannotConnect(url) ==
  "Cannot connect to backend server. Please ensure the FastAPI server is running on " \o url

\* a catch block that tells a failed connection by the message alone
ErrorMessageByText(error, url) ==
  IF Includes(error.message, "fetch")
    THEN "Cannot connect to backend server. Please ensure the FastAPI server is running on " \o url
  ELSE IF Includes(error.message, "API key")
    THEN "API key not configured. Please check your backend environment variables."
  ELSE IF Includes(error.message, "Rate limit")
    THEN "Rate limit exceeded. Please wait a moment before trying again."
  ELSE "Failed to get response. Please try again."

\* the errorMessage the catch block of handleSubmit shows
ErrorMessage(error, url) ==
  IF Includes(error.message, "fetch") \/ error.name = "TypeError"
    THEN CannotConnect(url)
  ELSE IF Includes(error.message, "API key")
    THEN "API key not configured. Please check your backend environment variables."
  ELSE IF Includes(error.message, "Rate limit")
    THEN "Rate limit exceeded. Please wait a moment before trying again."
  ELSE "Failed to get response. Please try again."

Toast(title, description, variant) ==
  [title |-> title, description |-> description, variant |-> variant]

ErrorToast(error, url) == Toast("Error", ErrorMessage(error, url), "destructive")

SuccessToast(r) ==
  Toast("Response Generated",
        "Model: " \o OrElse(r.model, "Unknown") \o " | Tokens: "
          \o (IF r.tokens = 0 THEN "N/A" ELSE NumberToString(r.tokens)),
        "default")

-----------------------------------------------------------------------------
(* handleSubmit.                                                           *)

\* an early return that tests the input without trimming it
AcceptsUntrimmed(inp, loading) == inp # "" /\ ~loading

\* an early return that does not look at isLoading
AcceptsWhileLoading(inp, loading) == Trim(inp) # ""

\* the negation of the early return: if (!input.trim() || isLoading) return
Accepts(inp, loading) == Trim(inp) # "" /\ ~loading

\* setInput(e.target.value): the textarea is not disabled while loading
SetInput(t) ==
  /\ phase = "mounted"
  /\ input' = t
  /\ UNCHANGED <<phase, envUrl, backendUrl, messages, isLoading, showHistory,
                 queryHistory, storage, now, requests, pending,
                 healthRequests, healthPending, toast>>

\* handleSubmit up to its first await: the early return, the user message,
\* the three state updates and the call of fetch. The closure of the rest of
\* the handler keeps userMessage, queryHistory and backendUrl of this render.
HandleSubmit(maxRequests) ==
  /\ phase = "mounted"
  /\ input # UNDEF
  /\ IF Accepts(input, isLoading)
     THEN LET userMessage == Message(NumberToString(now), Trim(input), "user", now)
          IN /\ Len(requests) < maxRequests
             /\ messages' = Append(messages, userMessage)
             /\ input' = ""
             /\ isLoading' = TRUE
             /\ requests' = Append(requests,
                  [url |-> backendUrl \o "/api/chat",
                   body |-> ChatBody(userMessage.content, messages)])
             /\ pending' = Append(pending,
                  [userMessage |-> userMessage, queryHistory |-> queryHistory,
                   backendUrl |-> backendUrl, response |-> NoResponse])
     ELSE UNCHANGED <<messages, input, isLoading, requests, pending>>
  /\ UNCHANGED <<phase, envUrl, backendUrl, showHistory, queryHistory, storage, now, healthRequests, healthPending, toast>>

\* the network settles the fetch of a request in flight
ChatRespond(i, r) ==
  /\ i \in 1..Len(pending)
  /\ pending[i].response = NoResponse
  /\ pending' = [pending EXCEPT ![i].response = r]
  /\ UNCHANGED <<phase, envUrl, backendUrl, messages, input, isLoading, showHistory,
                 queryHistory, storage, now, requests,
                 healthRequests, healthPending, toast>>

\* data.response || "No response received"
AssistantContent(r) == OrElse(r.response, "No response received")

\* a slice that keeps one entry too many
UpdatedHistoryOffByOne(closureHistory, query, response, t) ==
  SubSeq(<<[id |-> NumberToString(t), query |-> query, response |-> response,
            timestamp |-> t]>> \o closureHistory,
         1, Min(HistoryCap + 1, Len(closureHistory) + 1))

\* updatedHistory of saveToHistory, over the queryHistory of its closure
UpdatedHistory(closureHistory, query, response, t) ==
  Take(<<QueryHistory(NumberToString(t), query, response, t)>> \o closureHistory,
       HistoryCap)

\* localStorage after setItem("queryHistory", JSON.stringify(updatedHistory));
\* a setItem over the quota throws, saveToHistory catches it
StorageAfterSave(old, updatedHistory, full) ==
  IF full THEN old ELSE JSONStringify(updatedHistory)

\* setItem called before setQueryHistory: its throw skips the update
HistoryAfterSaveWriteFirst(old, updatedHistory, full) ==
  IF full THEN old ELSE updatedHistory

\* queryHistory after saveToHistory: setQueryHistory(updatedHistory) is
\* called before setItem, so a throw of setItem does not undo it
HistoryAfterSave(old, updatedHistory, full) == updatedHistory

\* setIsLoading(false) at the end of the try block, not in a finally block
LoadingAfterSettleTryOnly(error) == error # NoError

\* isLoading after the finally block
LoadingAfterSettle(error) == FALSE

\* the assistant message put in front of the conversation
MessagesAfterSettleInFront(prev, r, t) ==
  IF Thrown(r) = NoError
  THEN <<[id |-> NumberToString(t + 1), content |-> AssistantContent(r),
          role |-> "assistant", timestamp |-> t]>> \o prev
  ELSE prev

\* a failure shown as an assistant message
MessagesAfterSettleErrorShown(prev, r, t) ==
  Append(prev, [id |-> NumberToString(t + 1),
                content |-> IF Thrown(r) = NoError THEN AssistantContent(r)
                            ELSE Thrown(r).message,
                role |-> "assistant", timestamp |-> t])

\* setMessages([...messages, assistantMessage]) over the messages of the
\* closure, which lack the user message of the submission
MessagesAfterSettleStale(prev, r, t) ==
  IF Thrown(r) = NoError
  THEN Append(SubSeq(prev, 1, Len(prev) - 1),
              [id |-> NumberToString(t + 1), content |-> AssistantContent(r),
               role |-> "assistant", timestamp |-> t])
  ELSE prev

\* messages after the try block has run for a response
MessagesAfterSettle(prev, r, t) ==
  IF Thrown(r) = NoError
  THEN Append(prev, Message(NumberToString(t + 1), AssistantContent(r), "assistant", t))
  ELSE prev

\* the rest of handleSubmit, from the settled fetch to the finally block. No
\* state is written between its awaits (fetch, response.json), so it is one
\* step. full: the origin's storage is over its quota when setItem is called.
HandleSubmitResume(i, full) ==
  /\ phase = "mounted"
  /\ i \in 1..Len(pending)
  /\ pending[i].response # NoResponse
  /\ LET c == pending[i]
         r == c.response
         error == Thrown(r)
     IN /\ messages' = MessagesAfterSettle(messages, r, now)
        /\ IF error = NoError
           THEN LET updatedHistory ==
                      UpdatedHistory(c.queryHistory, c.userMessage.content,
                                     AssistantContent(r), now)
                IN /\ queryHistory' = HistoryAfterSave(queryHistory, updatedHistory, full)
                   /\ storage' = StorageAfterSave(storage, updatedHistory, full)
                   /\ toast' = SuccessToast(r)
           ELSE /\ toast' = ErrorToast(error, c.backendUrl)
                /\ UNCHANGED <<queryHistory, storage>>
        /\ isLoading' = LoadingAfterSettle(error)
        /\ pending' = RemoveAt(pending, i)
  /\ UNCHANGED <<phase, envUrl, backendUrl, input, showHistory, now,
                 requests, healthRequests, healthPending>>

-----------------------------------------------------------------------------
(* The history sidebar.                                                    *)

\* onClick={() => setShowHistory(!showHistory)}
ToggleHistory ==
  /\ phase = "mounted"
  /\ showHistory' = ~showHistory
  /\ UNCHANGED <<phase, envUrl, backendUrl, messages, input, isLoading, queryHistory,
                 storage, now, requests, pending, healthRequests,
                 healthPending, toast>>

\* a clearHistory that empties the state and leaves the stored payload
ClearHistoryKeepsStorage ==
  /\ phase = "mounted"
  /\ showHistory
  /\ queryHistory' = <<>>
  /\ toast' = [title |-> "History Cleared",
               description |-> "Query history has been cleared.", variant |-> "default"]
  /\ UNCHANGED <<phase, envUrl, backendUrl, messages, input, isLoading, showHistory,
                 storage, now, requests, pending, healthRequests, healthPending>>

\* clearHistory, the button of the open sidebar
ClearHistory ==
  /\ phase = "mounted"
  /\ showHistory
  /\ queryHistory' = <<>>
  /\ storage' = NoItem
  /\ toast' = Toast("History Cleared", "Query history has been cleared.", "default")
  /\ UNCHANGED <<phase, envUrl, backendUrl, messages, input, isLoading, showHistory, now, requests, pending, healthRequests, healthPending>>

\* loadHistoryItem, a click on a card of the open sidebar. An entry revived
\* from a stored number has no query: input becomes undefined and the next
\* render throws on input.trim().
LoadHistoryItem(i) ==
  /\ phase = "mounted"
  /\ showHistory
  /\ i \in 1..Len(queryHistory)
  /\ input' = queryHistory[i].query
  /\ showHistory' = FALSE
  /\ phase' = IF queryHistory[i].query = UNDEF THEN "crashed" ELSE phase
  /\ UNCHANGED <<envUrl, backendUrl, messages, isLoading, queryHistory, storage, now, requests, pending, healthRequests, healthPending,
                 toast>>

-----------------------------------------------------------------------------
(* testBackendConnection.                                                  *)

\* what the network gives back for GET /health: a failure (rejected fetch,
\* non-2xx status, unparsable or null body) or a 2xx JSON object
HealthFailure == [ok |-> FALSE, status |-> UNDEF, model |-> UNDEF]
HealthOk(status, model) == [ok |-> TRUE, status |-> status, model |-> model]
HealthResponses == {HealthFailure, HealthOk("healthy", UNDEF)}

HealthToast(r, url) ==
  IF r.ok
  THEN Toast("Backend Connected",
             "Status: " \o OrElse(r.status, "Unknown") \o " | Model: "
               \o OrElse(r.model, "Unknown"),
             "default")
  ELSE Toast("Backend Connection Failed",
             "Cannot connect to " \o url \o ". Please ensure FastAPI server is running.",
             "destructive")

\* testBackendConnection up to its await: the call of fetch
TestBackendConnection ==
  /\ phase = "mounted"
  /\ Len(healthRequests) < MaxHealth
  /\ healthRequests' = Append(healthRequests, backendUrl \o "/health")
  /\ healthPending' = Append(healthPending, backendUrl)
  /\ UNCHANGED <<phase, envUrl, backendUrl, messages, input, isLoading, showHistory,
                 queryHistory, storage, now, requests, pending, toast>>

\* the rest of testBackendConnection, once the fetch has settled
HealthSettle(i, r) ==
  /\ phase = "mounted"
  /\ i \in 1..Len(healthPending)
  /\ toast' = HealthToast(r, healthPending[i])
  /\ healthPending' = RemoveAt(healthPending, i)
  /\ UNCHANGED <<phase, envUrl, backendUrl, messages, input, isLoading, showHistory,
                 queryHistory, storage, now, requests, pending,
                 healthRequests>>

-----------------------------------------------------------------------------
(* The environment: the clock.                                             *)

\* Date.now() advances by a millisecond
Tick ==
  /\ now < MaxClock
  /\ now' = now + 1
  /\ UNCHANGED <<phase, envUrl, backendUrl, messages, input, isLoading, showHistory,
                 queryHistory, storage, requests, pending,
                 healthRequests, healthPending, toast>>

-----------------------------------------------------------------------------
(* The specification of the component.                                     *)

\* what the user types into the textarea
InputTexts == {"  ", " hi "}

Next ==
  \/ Mount
  \/ \E t \in InputTexts : SetInput(t)
  \/ HandleSubmit(MaxRequests)
  \/ \E i \in 1..Len(pending) : \E r \in ChatResponses : ChatRespond(i, r)
  \/ \E i \in 1..Len(pending) : \E full \in BOOLEAN : HandleSubmitResume(i, full)
  \/ ToggleHistory
  \/ ClearHistory
  \/ \E i \in 1..Len(queryHistory) : LoadHistoryItem(i)
  \/ TestBackendConnection
  \/ \E i \in 1..Len(healthPending) : \E r \in HealthResponses : HealthSettle(i, r)
  \/ Tick

Spec == Init /\ [][Next]_vars

-----------------------------------------------------------------------------
(* The specification of long runs of exchanges: the history starts empty,  *)
(* the n-th submission sends the text q<n> and is answered r<n>, and the   *)
(* history is never cleared. At most MaxCapFailures requests fail, and no  *)
(* two storage writes in a row fail.                                       *)

InitCap == InitWith("http://api", NoItem)

CapText == "q" \o NumberToString(Len(requests) + 1)

CapAnswer ==
  HttpResponse(TRUE, "object", UNDEF, "r" \o NumberToString(Len(requests)), UNDEF, 0, "")

\* the chat requests that have failed so far
CapFailures == 2 * Len(requests) - Len(pending) - Len(messages)

\* the persisted payload holds the entries of the in-memory history: no
\* storage write has failed since the last one that succeeded
CapInSync == storage = IF queryHistory = <<>> THEN NoItem ELSE JSONStringify(queryHistory)

NextCap ==
  \/ Mount
  \/ ~isLoading /\ SetInput(CapText)
  \/ HandleSubmit(HistoryCap + CapExtra)
  \/ \E i \in 1..Len(pending) : ChatRespond(i, CapAnswer)
  \/ CapFailures < MaxCapFailures
       /\ \E i \in 1..Len(pending) : ChatRespond(i, Rejected("Failed to fetch"))
  \/ \E i \in 1..Len(pending) : HandleSubmitResume(i, FALSE)
  \/ CapInSync /\ \E i \in 1..Len(pending) : HandleSubmitResume(i, TRUE)

SpecCap == InitCap /\ [][NextCap]_vars

-----------------------------------------------------------------------------
(* Properties.                                                             *)

Pair(query, response) == [query |-> query, response |-> response]

\* the successful exchanges of the conversation, newest first: every
\* assistant message with the user message before it
RECURSIVE ExchangesNewestFirst(_)
ExchangesNewestFirst(m) ==
  IF Len(m) < 2 THEN <<>>
  ELSE IF m[Len(m)].role = "assistant"
    THEN <<Pair(m[Len(m) - 1].content, m[Len(m)].content)>>
           \o ExchangesNewestFirst(SubSeq(m, 1, Len(m) - 2))
  ELSE ExchangesNewestFirst(SubSeq(m, 1, Len(m) - 1))

\* the query and response of the entries of the in-memory history
HistoryPairs == [i \in 1..Len(queryHistory) |-> Pair(queryHistory[i].query, queryHistory[i].response)]

\* the query and response of the entries of the persisted payload
StoredPairs ==
  IF storage.kind = "array"
  THEN [i \in 1..Len(storage.items) |-> Pair(storage.items[i].query, storage.items[i].response)]
  ELSE <<>>

\* C1 as stated: after n successful exchanges from an empty history, with no
\* clear, the in-memory history and the persisted payload both hold exactly
\* the min(n, 50) newest exchanges, newest first.
C1_Original ==
  /\ HistoryPairs = Take(ExchangesNewestFirst(messages), HistoryCap)
  /\ StoredPairs = Take(ExchangesNewestFirst(messages), HistoryCap)

\* C1, amended: after n successful exchanges from an empty history, with no
\* clear, the in-memory history holds exactly the min(n, 50) newest exchanges,
\* newest first, each with its query and response; the persisted payload
\* holds the min(k, 50) newest of the first k exchanges, newest first, for
\* some k <= n (a storage write that fails leaves the previous payload).
C1_HistoryHoldsNewest ==
  LET all == ExchangesNewestFirst(messages)
  IN /\ HistoryPairs = Take(all, HistoryCap)
     /\ storage.kind \in {"absent", "array"}
     /\ \E d \in 0..Len(all) : StoredPairs = Take(SubSeq(all, d + 1, Len(all)), HistoryCap)

\* more than 50 exchanges have succeeded, the history and the payload are full
C1_Witness ==
  /\ Len(ExchangesNewestFirst(messages)) > HistoryCap
  /\ Len(queryHistory) = HistoryCap
  /\ Len(StoredPairs) = HistoryCap
  /\ queryHistory[1].query = "q" \o NumberToString(HistoryCap + 1)

-----------------------------------------------------------------------------
(* One request at a time, ordering, release of the flag, failures.         *)

\* the step is the rest of handleSubmit for the only request in flight
Settles == Len(pending) = 1 /\ pending[1].response # NoResponse /\ pending' = <<>>

\* the step appends one message to the conversation
Appends == Len(messages') = Len(messages) + 1 /\ SubSeq(messages', 1, Len(messages)) = messages

\* C2: at most one chat request is outstanding, and while one is outstanding
\* no request is issued and no message is appended except the assistant
\* message of the step that settles it.
C2_OneOutstanding ==
  /\ [](Len(pending) <= 1)
  /\ [][pending # <<>> =>
          /\ requests' = requests
          /\ messages' # messages =>
               (Settles /\ Appends /\ messages'[Len(messages')].role = "assistant")]_vars

\* a request is outstanding and the textarea holds a text that would be sent
C2_Witness == Len(pending) = 1 /\ isLoading /\ Trim(input) # "" /\ Len(requests) = 1

\* the contents of the user messages, in order
RECURSIVE UserContents(_)
UserContents(m) ==
  IF m = <<>> THEN <<>>
  ELSE IF m[Len(m)].role = "user"
    THEN Append(UserContents(SubSeq(m, 1, Len(m) - 1)), m[Len(m)].content)
  ELSE UserContents(SubSeq(m, 1, Len(m) - 1))

\* C3: an assistant message is appended right after the user message of its
\* submission; a history entry is added in the step that has appended the
\* assistant message of its exchange, at the head of the history, the
\* entries behind it keeping their order; the user messages are the
\* messages of the requests, in the order of submission.
C3_Ordering ==
  /\ [](UserContents(messages) = [i \in 1..Len(requests) |-> requests[i].body.message])
  /\ [](\A i \in 1..Len(messages) :
          messages[i].role = "assistant" => i > 1 /\ messages[i - 1].role = "user")
  /\ [][(Appends /\ messages'[Len(messages')].role = "assistant") =>
          /\ Settles
          /\ messages # <<>>
          /\ messages[Len(messages)] = pending[1].userMessage]_vars
  /\ [][(phase = "mounted" /\ queryHistory' # queryHistory /\ queryHistory' # <<>>) =>
          /\ Settles
          /\ Appends
          /\ messages'[Len(messages')].role = "assistant"
          /\ queryHistory'[1].query = messages[Len(messages)].content
          /\ queryHistory'[1].query = requests[Len(requests)].body.message
          /\ queryHistory'[1].response = messages'[Len(messages')].content
          /\ Tail(queryHistory') = Take(pending[1].queryHistory, HistoryCap - 1)]_vars

\* two exchanges have succeeded in this session
C3_Witness ==
  /\ Len(messages) = 4
  /\ messages[2].role = "assistant"
  /\ messages[4].role = "assistant"
  /\ Len(queryHistory) >= 2
  /\ queryHistory[1].response = messages[4].content

\* C4: the step that settles a chat request, with whatever outcome, clears
\* isLoading; isLoading is set exactly while a request is in flight.
C4_FlagReleased ==
  /\ [](phase = "mounted" => (isLoading <=> pending # <<>>))
  /\ [][Len(pending') < Len(pending) => ~isLoading']_vars

\* a request has failed and a new submission is accepted
C4_Witness ==
  /\ requests # <<>>
  /\ pending = <<>>
  /\ ~isLoading
  /\ toast.title = "Error"
  /\ messages[Len(messages)].role = "user"

\* C5: the step that settles a failed chat request leaves the conversation
\* as it is, with the user message of the submission at its end, and leaves
\* the history in memory and in storage as they are.
C5_FailureKeepsState ==
  [][(Settles /\ Thrown(pending[1].response) # NoError) =>
       /\ messages' = messages
       /\ messages # <<>>
       /\ messages[Len(messages)] = pending[1].userMessage
       /\ messages[Len(messages)].role = "user"
       /\ queryHistory' = queryHistory
       /\ storage' = storage]_vars

\* a non-2xx response has been handled: the user message is the last one
C5_Witness ==
  /\ Len(messages) = 1
  /\ messages[1].role = "user"
  /\ pending = <<>>
  /\ toast = ErrorToast(Error("Error", "model overloaded"), backendUrl)
  /\ queryHistory = LoadedHistory(storage)

-----------------------------------------------------------------------------
(* Loading, ids, configuration, error reports.                             *)

\* the payload is text that is not JSON, or JSON that is not an array of
\* objects
Malformed(payload) ==
  \/ payload.kind \in {"garbage", "nonarray"}
  \/ payload.kind = "array" /\ \E i \in 1..Len(payload.items) : payload.items[i].k # "object"

\* C6: the history load of the mount effect, from a malformed payload, leaves
\* the in-memory history empty and removes the payload from storage.
C6_MalformedLoadClears ==
  [][(phase = "rendered" /\ phase' = "mounted" /\ Malformed(storage)) =>
       (queryHistory' = <<>> /\ storage' = NoItem)]_vars

\* C7: the ids of the messages of the conversation are pairwise distinct and
\* increase in the order of creation.
C7_DistinctIncreasingIds ==
  \A i \in 1..Len(messages) : \A j \in 1..Len(messages) :
    i < j => ParseDigits(messages[i].id) < ParseDigits(messages[j].id)

\* C8: with no backend URL configured the component does not crash, and no
\* chat or health request is issued.
C8_MissingUrlHandled ==
  envUrl = "" => (phase # "crashed" /\ requests = <<>> /\ healthRequests = <<>>)

\* the texts the code has for a failure it says nothing specific about
GenericMessages ==
  {"Unknown error", "Failed to get response from backend",
   "Failed to get response. Please try again."}

\* C9: for a non-2xx chat response the message shown is the detail text of
\* the error body, or a generic text when the body has none or cannot be
\* parsed, and never the cannot-connect message.
C9_DetailSurfaced ==
  [][(Settles /\ pending[1].response.kind = "http" /\ ~pending[1].response.ok) =>
       LET r == pending[1].response
       IN /\ toast'.title = "Error"
          /\ toast'.description # CannotConnect(pending[1].backendUrl)
          /\ IF r.body = "object" /\ r.detail # UNDEF
             THEN toast'.description = r.detail
             ELSE toast'.description \in GenericMessages]_vars

\* the failure of the request is not a parsed HTTP error response
NotHttpError(r) == r.kind = "reject" \/ (r.kind = "http" /\ r.ok /\ r.body # "object")

\* C10 as stated: every failure that is not a parsed HTTP error response is
\* reported with the cannot-connect message, which includes the backend URL.
C10_Original ==
  [][(Settles /\ NotHttpError(pending[1].response)) =>
       /\ toast'.title = "Error"
       /\ toast'.description = CannotConnect(backendUrl)
       /\ Includes(toast'.description, backendUrl)]_vars

\* C10, amended: every network-level failure of a chat request (fetch rejects:
\* connection refused, DNS failure) is reported with the cannot-connect
\* message, which includes the configured backend URL.
C10_NetworkFailureUnreachable ==
  [][(Settles /\ pending[1].response.kind = "reject") =>
       /\ toast'.title = "Error"
       /\ toast'.variant = "destructive"
       /\ toast'.description = CannotConnect(backendUrl)
       /\ backendUrl = envUrl
       /\ backendUrl # ""
       /\ Includes(toast'.description, backendUrl)]_vars

\* a failure has been reported with the cannot-connect message
C10_Witness ==
  /\ Len(requests) = 1
  /\ pending = <<>>
  /\ ~isLoading
  /\ toast = Toast("Error", CannotConnect("http://api"), "destructive")

-----------------------------------------------------------------------------
(* Storage write failures, the conversation log, blank input, clearing.    *)

\* C11: when the storage write of a history append fails (the payload stays
\* as it was), the step still puts the new entry at the head of the
\* in-memory history, appends the assistant message, shows the success toast
\* and leaves the component mounted and ready.
C11_WriteFailureSwallowed ==
  [][(Settles /\ Thrown(pending[1].response) = NoError /\ storage' = storage) =>
       /\ queryHistory' # <<>>
       /\ queryHistory'[1].query = pending[1].userMessage.content
       /\ queryHistory'[1].response = AssistantContent(pending[1].response)
       /\ Appends
       /\ messages'[Len(messages')].role = "assistant"
       /\ messages'[Len(messages')].content = AssistantContent(pending[1].response)
       /\ toast' = SuccessToast(pending[1].response)
       /\ phase' = "mounted"
       /\ ~isLoading']_vars

\* an exchange has succeeded and its entry is in memory, but nothing was
\* written: the storage is still empty
C11_Witness ==
  /\ Len(messages) = 2
  /\ messages[2].role = "assistant"
  /\ Len(queryHistory) = 1
  /\ queryHistory[1].response = messages[2].content
  /\ storage = NoItem
  /\ toast.title = "Response Generated"
  /\ pending = <<>>

\* C12: every step leaves the conversation as it is or extends it by one
\* message at its end: no message is removed, reordered or modified.
C12_AppendOnly == [][messages' = messages \/ Appends]_vars

\* the history has been cleared after an exchange, the conversation is whole
C12_Witness ==
  /\ Len(messages) = 2
  /\ messages[1].role = "user"
  /\ messages[2].role = "assistant"
  /\ queryHistory = <<>>
  /\ toast.title = "History Cleared"

\* C13: from a state whose input is empty or only whitespace no step issues a
\* chat request, sets isLoading or appends a user message, and a step of
\* handleSubmit changes neither the conversation nor the history nor the
\* requests in flight.
C13_BlankInputIgnored ==
  [][Trim(input) = "" =>
       /\ requests' = requests
       /\ isLoading' => isLoading
       /\ messages' # messages => (Appends /\ messages'[Len(messages')].role = "assistant")
       /\ HandleSubmit(MaxRequests) =>
            UNCHANGED <<messages, queryHistory, storage, isLoading, requests, pending>>]_vars

\* the textarea holds only whitespace and no request is in flight: a
\* submission would pass the isLoading test
C13_Witness ==
  /\ phase = "mounted"
  /\ input = "  "
  /\ ~isLoading
  /\ pending = <<>>
  /\ Len(requests) < MaxRequests

\* C14: a step of clearHistory empties the in-memory history and leaves a
\* storage from which the history load of a session start reads the empty
\* history, without throwing; this stays so for as long as the toast of
\* clearHistory is the last one shown.
C14_ClearThenLoadEmpty ==
  /\ [][ClearHistory =>
          /\ queryHistory' = <<>>
          /\ storage' = NoItem
          /\ ~LoadThrows(storage')
          /\ LoadedHistory(storage') = <<>>]_vars
  /\ [](toast.title = "History Cleared" =>
          /\ queryHistory = <<>>
          /\ ~LoadThrows(storage)
          /\ LoadedHistory(storage) = <<>>)

\* a history with the entry of an exchange of this session has been cleared
C14_Witness ==
  /\ toast.title = "History Cleared"
  /\ showHistory
  /\ \E i \in 1..Len(messages) : messages[i].role = "assistant"
  /\ storage = NoItem
  /\ LoadedHistory(storage) = <<>>

\* C15: the step that completes a successful exchange adds only the entry of
\* that exchange to the history as it is then, in memory and in storage: an
\* entry that clearHistory removed while the request was in flight does not
\* come back. Stated for histories whose entries are exchanges (not the
\* entries revived from a malformed payload).
C15_ClearNotUndone ==
  [][(/\ Settles
      /\ Thrown(pending[1].response) = NoError
      /\ \A i \in 1..Len(pending[1].queryHistory) : pending[1].queryHistory[i].id # UNDEF) =>
       LET expected == Take(<<queryHistory'[1]>> \o queryHistory, HistoryCap)
       IN /\ queryHistory' # <<>>
          /\ queryHistory' = expected
          /\ storage' \in {storage, JSONStringify(expected)}]_vars

====
